---- MODULE Spec2Model ----
(***************************************************************************)
(* A model of scrape.py: the page fetcher (get_page), the field extractor  *)
(* (extract_anime_info), the section scrapers, the aggregator (scrape_all) *)
(* with its dedup loop, persistence and the driver main.                   *)
(*                                                                         *)
(* Strings.  A title is a sequence of one-character strings, so that       *)
(* len(), str.lower() and str.strip() are computed character by character. *)
(* An href or URL is a sequence of tokens: the delimiters ":", "/", "?"    *)
(* and "#" are tokens of their own and every other token is a run of       *)
(* characters holding no delimiter (two such runs are never adjacent), so  *)
(* two token sequences are equal exactly when the strings are.             *)
(***************************************************************************)
EXTENDS Integers, Sequences, FiniteSets, TLC

(***************************************************************************)
(* Generic sequence helpers (Python's str.find, in, split, join, slices).  *)
(***************************************************************************)
Range(s) == {s[i] : i \in 1..Len(s)}

\* s[a-1 : b] in Python terms: the elements a..b of s (empty when a > b).
Slice(s, a, b) == IF a > b THEN <<>> ELSE SubSeq(s, a, b)

\* str.find: the first index holding x, 0 when there is none.
IndexOf(s, x) ==
    IF \E i \in 1..Len(s) : s[i] = x
    THEN CHOOSE i \in 1..Len(s) : s[i] = x /\ \A j \in 1..(i - 1) : s[j] # x
    ELSE 0

\* sub in s
Contains(s, sub) ==
    \E i \in 0..(Len(s) - Len(sub)) : \A j \in 1..Len(sub) : s[i + j] = sub[j]

\* s.split(d): the pieces between the occurrences of d, empty pieces kept.
RECURSIVE SplitAt(_, _, _)
SplitAt(s, d, i) ==
    IF i = 0 THEN <<s>>
    ELSE <<Slice(s, 1, i - 1)>>
         \o SplitAt(Slice(s, i + 1, Len(s)), d, IndexOf(Slice(s, i + 1, Len(s)), d))

SplitOn(s, d) == SplitAt(s, d, IndexOf(s, d))

\* d.join(parts)
RECURSIVE JoinWith(_, _)
JoinWith(parts, d) ==
    IF Len(parts) = 0 THEN <<>>
    ELSE IF Len(parts) = 1 THEN parts[1]
    ELSE parts[1] \o <<d>> \o JoinWith(Tail(parts), d)

Last(s) == s[Len(s)]

(***************************************************************************)
(* urllib.parse, as far as urljoin(self.base_url, href) uses it.           *)
(***************************************************************************)
\* The tokens that hold only scheme characters (letters, digits, + - .) and
\* start with an ASCII letter: what urlsplit accepts before the first ":".
SchemeNames ==
    {"https", "HTTPS", "http", "javascript", "watch", "anime", "naruto-100",
     "bleach-7", "evil.example"}

\* url[:i].lower() of a scheme name.
SchemeLower(t) == IF t = "HTTPS" THEN "https" ELSE t

uses_relative == {"", "ftp", "http", "https", "file", "sftp", "ws", "wss"}

uses_netloc == {"", "ftp", "http", "https", "file", "sftp", "ws", "wss", "git", "rsync"}

\* The least element of a set of indices, n when it is empty.
MinOr(S, n) == IF S = {} THEN n ELSE CHOOSE i \in S : \A j \in S : i <= j

\* _splitnetloc(url, 2): the netloc runs to the first of / ? # after "//".
NetlocEnd(rest) ==
    MinOr({i \in 1..Len(rest) : rest[i] \in {"/", "?", "#"}}, Len(rest) + 1)

\* The tokens holding a "[" with no "]" (or the reverse): a netloc holding one
\* makes urlsplit raise ValueError("Invalid IPv6 URL").
UnbalancedBracket == {"[bad"}

\* s.split(d, 1): [head, tail, found].
Partition(s, i) ==
    IF i = 0 THEN [head |-> s, tail |-> <<>>]
    ELSE [head |-> Slice(s, 1, i - 1), tail |-> Slice(s, i + 1, Len(s))]

\* urlsplit, the scheme: url[:i] before the first ":" when it is a scheme name.
SplitScheme(url, scheme) ==
    IF IndexOf(url, ":") = 2 /\ url[1] \in SchemeNames
    THEN [scheme |-> SchemeLower(url[1]), rest |-> Slice(url, 3, Len(url))]
    ELSE [scheme |-> scheme, rest |-> url]

\* _splitnetloc(url, 2), given where the netloc ends.
CutNetloc(scheme, r, e) ==
    [scheme |-> scheme, netloc |-> Slice(r, 1, e - 1), rest |-> Slice(r, e, Len(r))]

AfterSlashes(scheme, r) == CutNetloc(scheme, r, NetlocEnd(r))

\* urlsplit, the netloc: if url[:2] == '//'.
SplitNetloc(p) ==
    IF Len(p.rest) >= 2 /\ p.rest[1] = "/" /\ p.rest[2] = "/"
    THEN AfterSlashes(p.scheme, Slice(p.rest, 3, Len(p.rest)))
    ELSE [scheme |-> p.scheme, netloc |-> <<>>, rest |-> p.rest]

WithFragment(p, f) ==
    [scheme |-> p.scheme, netloc |-> p.netloc, rest |-> f.head, fragment |-> f.tail]

\* urlsplit: url.split('#', 1)
SplitFragment(p) == WithFragment(p, Partition(p.rest, IndexOf(p.rest, "#")))

WithQuery(p, q) ==
    [scheme |-> p.scheme, netloc |-> p.netloc, path |-> q.head, query |-> q.tail,
     fragment |-> p.fragment]

\* urlsplit: url.split('?', 1)
SplitQuery(p) == WithQuery(p, Partition(p.rest, IndexOf(p.rest, "?")))

\* urlsplit(url, scheme): [scheme, netloc, path, query, fragment].
urlsplit(url, scheme) ==
    SplitQuery(SplitFragment(SplitNetloc(SplitScheme(url, scheme))))

Prefixed(scheme, u) == IF scheme # "" THEN <<scheme, ":">> \o u ELSE u

Suffixed(u, mark, part) == IF part # <<>> THEN u \o <<mark>> \o part ELSE u

\* urlunsplit, the "//" netloc part.
WithNetloc(p) ==
    IF p.netloc # <<>>
       \/ (p.scheme # "" /\ p.scheme \in uses_netloc
           /\ Slice(p.path, 1, 2) # <<"/", "/">>)
    THEN <<"/", "/">> \o p.netloc
         \o (IF p.path # <<>> /\ p.path[1] # "/" THEN <<"/">> ELSE <<>>) \o p.path
    ELSE p.path

\* urlunsplit((scheme, netloc, url, query, fragment))
urlunsplit(p) ==
    Suffixed(Suffixed(Prefixed(p.scheme, WithNetloc(p)), "?", p.query), "#", p.fragment)

\* The loop of urljoin that resolves "." and ".." segments.
RECURSIVE ResolveSegments(_, _)
ResolveSegments(segments, resolved) ==
    IF segments = <<>> THEN resolved
    ELSE ResolveSegments(Tail(segments),
             IF segments[1] = <<"..">>
             THEN (IF resolved = <<>> THEN resolved
                   ELSE Slice(resolved, 1, Len(resolved) - 1))
             ELSE IF segments[1] = <<".">> THEN resolved
             ELSE Append(resolved, segments[1]))

\* segments[1:-1] = filter(None, segments[1:-1])
FilterInner(segments) ==
    IF Len(segments) <= 2 THEN segments
    ELSE <<segments[1]>>
         \o SelectSeq(Slice(segments, 2, Len(segments) - 1), LAMBDA x : x # <<>>)
         \o <<Last(segments)>>

\* base_parts: bpath.split('/') without a last item that is no directory.
BaseParts(parts) ==
    IF Last(parts) # <<>> THEN Slice(parts, 1, Len(parts) - 1) ELSE parts

\* segments: the path's own when it starts at the root, else the base's too.
Segments(bpath, path) ==
    IF path[1] = "/" THEN SplitOn(path, "/")
    ELSE FilterInner(BaseParts(SplitOn(bpath, "/")) \o SplitOn(path, "/"))

\* resolved_path, with the trailing '' after a last "." or "..".
Resolved(segments) ==
    ResolveSegments(segments, <<>>)
    \o (IF Last(segments) \in {<<".">>, <<"..">>} THEN << <<>> >> ELSE <<>>)

\* '/'.join(resolved_path) or '/'
OrRoot(joined) == IF joined = <<>> THEN <<"/">> ELSE joined

\* urljoin once both URLs are split.
JoinSplit(b, u, url) ==
    IF u.scheme # b.scheme \/ u.scheme \notin uses_relative THEN url
    ELSE IF u.scheme \in uses_netloc /\ u.netloc # <<>> THEN urlunsplit(u)
    ELSE IF u.path = <<>>
    THEN urlunsplit([scheme |-> u.scheme,
                     netloc |-> IF u.scheme \in uses_netloc THEN b.netloc ELSE u.netloc,
                     path |-> b.path,
                     query |-> IF u.query = <<>> THEN b.query ELSE u.query,
                     fragment |-> u.fragment])
    ELSE urlunsplit([scheme |-> u.scheme,
                     netloc |-> IF u.scheme \in uses_netloc THEN b.netloc ELSE u.netloc,
                     path |-> OrRoot(JoinWith(Resolved(Segments(b.path, u.path)), "/")),
                     query |-> u.query, fragment |-> u.fragment])

JoinBase(b, url) == JoinSplit(b, urlsplit(url, b.scheme), url)

\* urljoin(base, url)
urljoin(base, url) ==
    IF base = <<>> THEN url
    ELSE IF url = <<>> THEN base
    ELSE JoinBase(urlsplit(base, ""), url)

\* Whether urljoin(base, url) raises ValueError (from urlsplit of either).
urljoin_raises(base, url) ==
    /\ base # <<>>
    /\ url # <<>>
    /\ \E t \in Range(SplitNetloc(SplitScheme(base, "")).netloc)
                \cup Range(SplitNetloc(SplitScheme(url, "")).netloc) :
          t \in UnbalancedBracket

(***************************************************************************)
(* Characters: str.lower(), str.strip(), len().                            *)
(***************************************************************************)
UpperChars ==
    <<"A", "B", "C", "D", "E", "F", "G", "H", "I", "J", "K", "L", "M",
      "N", "O", "P", "Q", "R", "S", "T", "U", "V", "W", "X", "Y", "Z">>

LowerChars ==
    <<"a", "b", "c", "d", "e", "f", "g", "h", "i", "j", "k", "l", "m",
      "n", "o", "p", "q", "r", "s", "t", "u", "v", "w", "x", "y", "z">>

Digits == {"0", "1", "2", "3", "4", "5", "6", "7", "8", "9"}

Whitespace == {" ", "\t", "\n"}

LowerChar(c) ==
    IF \E i \in 1..26 : UpperChars[i] = c
    THEN LowerChars[CHOOSE i \in 1..26 : UpperChars[i] = c]
    ELSE c

\* str.lower()
str_lower(s) == [i \in 1..Len(s) |-> LowerChar(s[i])]

\* str.strip()
RECURSIVE lstrip(_)
lstrip(s) == IF s # <<>> /\ s[1] \in Whitespace THEN lstrip(Tail(s)) ELSE s

RECURSIVE rstrip(_)
rstrip(s) ==
    IF s # <<>> /\ Last(s) \in Whitespace THEN rstrip(Slice(s, 1, Len(s) - 1)) ELSE s

strip(s) == rstrip(lstrip(s))

(***************************************************************************)
(* Python dicts: a function whose domain is the set of keys present.       *)
(***************************************************************************)
EmptyDict == <<>>

HasKey(d, k) == k \in DOMAIN d

\* d[k] = v
SetKey(d, k, v) == (k :> v) @@ d

\* d.get(k, default)
Get(d, k, default) == IF k \in DOMAIN d THEN d[k] ELSE default

(***************************************************************************)
(* Markup.  A candidate element is the sequence of its descendant tags in  *)
(* document order, each a node [tag, cls, text, href, jname, src, alt]     *)
(* (an absent attribute and an empty one are both the empty sequence: the  *)
(* code tests them for truth only), the img tags found under its parent    *)
(* and its grandparent (ancestors, at most two entries), its own tag and   *)
(* class tokens, and the homepage sections (secs, numbered in document     *)
(* order) that enclose it.  A page is the sequence of its elements in      *)
(* document order.                                                         *)
(***************************************************************************)
Node(tag, cls, text, href, jname, src, alt) ==
    [tag |-> tag, cls |-> cls, text |-> text, href |-> href, jname |-> jname,
     src |-> src, alt |-> alt]

\* The first of the matches, as a sequence of length <= 1 (None: empty).
FirstOf(m) == IF m = <<>> THEN <<>> ELSE <<m[1]>>

\* soup.find(...): the first node satisfying Test.
Find(nodes, Test(_)) == FirstOf(SelectSeq(nodes, Test))

\* a or b, for two results of find.
OrElse(a, b) == IF a # <<>> THEN a ELSE b

\* tag.get_text(strip=True)
get_text(node) == strip(node.text)

\* The keywords of the code's regular expressions that each class token holds
\* as a substring (re.search on the token, str.lower() of it for the "in" tests).
ClassWords(c) ==
    CASE c = "episode"     -> {"episode", "ep"}
      [] c = "tick-eps"    -> {"ep"}
      [] c = "status"      -> {"status"}
      [] c = "year"        -> {"year"}
      [] c = "type"        -> {"type"}
      [] c = "genre"       -> {"genre"}
      [] c = "rating"      -> {"rating"}
      [] c = "score"       -> {"score"}
      [] c = "tag"         -> {"tag"}
      [] c = "description" -> {"desc"}
      [] c = "synopsis"    -> {"synopsis"}
      [] c = "flw-item"    -> {"item"}
      [] c = "anime-card"  -> {"anime", "card"}
      [] c = "movie-box"   -> {"movie"}
      [] c = "trending"    -> {"trending"}
      [] OTHER             -> {}

\* class_=re.compile(r'w1|w2|...'): some class token of the node holds a word.
ClassMatches(node, words) == \E c \in node.cls : ClassWords(c) \cap words # {}

base_url == <<"https", ":", "/", "/", "9animetv.to">>

WatchMarker == <<"/", "watch", "/">>

Stoplist ==
    { <<"u", "p", "d", "a", "t", "e", "d">>, <<"a", "d", "d", "e", "d">>,
      <<"o", "n", "g", "o", "i", "n", "g">>, <<"u", "p", "c", "o", "m", "i", "n", "g">>,
      <<"h", "o", "m", "e">> }

\* The minimum title length: len(title) > 3.
MinTitleLen == 3

(***************************************************************************)
(* The markup the fetches may return.                                      *)
(***************************************************************************)
T_Naruto == <<"N", "a", "r", "u", "t", "o">>

T_NARUTO == <<"N", "A", "R", "U", "T", "O">>

T_Bleach == <<" ", "B", "l", "e", "a", "c", "h", "\n">>

T_Home == <<"H", "o", "m", "e">>

T_ONGOING == <<" ", "O", "N", "G", "O", "I", "N", "G">>

T_Abc == <<"a", "b", "c">>

T_Ep1 == <<"E", "p", " ", "1">>

T_Ep2 == <<"E", "p", " ", "2">>

T_2020 == <<"2", "0", "2", "0">>

T_Genres == <<"A", "c", "t", "i", "o", "n", ",", " ", "D", "r", "a", "m", "a">>

H_Naruto == <<"/", "watch", "/", "naruto-100">>

H_Bleach == <<"/", "watch", "/", "bleach-7">>

H_Home == <<"/", "home">>

\* The hrefs a link element may carry.
Hrefs ==
    { H_Naruto, H_Bleach, H_Home,
      <<>>,
      <<"anime", "/", "watch", "/", "naruto-100">>,
      <<"https", ":", "/", "/", "9animetv.to", "/", "watch", "/", "naruto-100">>,
      <<"HTTPS", ":", "/", "/", "9animetv.to", "/", "watch", "/", "naruto-100">>,
      <<"http", ":", "/", "/", "9animetv.to", "/", "watch", "/", "naruto-100">>,
      <<"https", ":", "/", "/", "evil.example", "/", "watch", "/", "naruto-100">>,
      <<"/", "/", "evil.example", "/", "watch", "/", "naruto-100">>,
      <<"/", "/", "[bad", "/", "watch", "/", "naruto-100">>,
      <<"javascript", ":", "/", "watch", "/", "naruto-100">>,
      <<"/", "watch", "/", "naruto-100", "/">>,
      <<"/", "watch", "/", "naruto-100", "?", "ep=1">>,
      <<"/", "watch", "/", "naruto-100", "#", "top">> }

\* The texts a title-bearing element may carry.
Titles == {T_Naruto, T_NARUTO, T_Bleach, T_Home, T_ONGOING, T_Abc, <<>>}

ALink(cls, text, href, jname) == Node("a", cls, text, href, jname, <<>>, <<>>)

Txt(tag, cls, text) == Node(tag, cls, text, <<>>, <<>>, <<>>, <<>>)

Img(src, alt) == Node("img", {}, <<>>, <<>>, <<>>, src, alt)

Element(tag, cls, secs, nodes, ancestors) ==
    [tag |-> tag, cls |-> cls, secs |-> secs, nodes |-> nodes, ancestors |-> ancestors]

\* A listing item as the site renders it: one anchor of class dynamic-name
\* carrying the title and the link, and an episode badge.
Item(title, href, ep) ==
    Element("div", {"film-detail", "flw-item"}, {1},
            <<ALink({"dynamic-name"}, title, href, <<>>), Txt("span", {"tick-eps"}, ep)>>,
            <<>>)

\* Elements of other shapes: each lookup's fallbacks, an element with no
\* title-bearing tag, a navigation entry, a poster with an image.
OddElements ==
    { \* the title from a film-name heading, the link from the first /watch/ anchor
      Element("div", {"flw-item"}, {1, 2},
              <<Txt("h3", {"film-name"}, T_Bleach), ALink({}, <<>>, H_Home, <<>>),
                ALink({}, T_Abc, H_Bleach, T_Naruto)>>, <<>>),
      \* a title and no anchor at all
      Element("li", {"anime-card"}, {2},
              <<Txt("h2", {}, T_Naruto), Txt("div", {"status"}, T_2020),
                Txt("p", {"description"}, T_Naruto)>>, <<>>),
      \* no title-bearing tag: only metadata
      Element("div", {"film-detail", "flw-item"}, {1},
              <<Txt("span", {"year"}, T_2020), Txt("span", {"genre"}, T_Genres),
                Txt("div", {"rating"}, T_Ep1)>>, <<>>),
      \* a navigation entry
      Element("li", {"flw-item"}, {},
              <<ALink({}, T_ONGOING, <<"/", "ongoing">>, <<>>)>>, <<>>),
      \* a poster: the film-poster-ahref anchor and an image (its own, or its
      \* parent's)
      Element("div", {"movie-box"}, {1},
              <<ALink({"film-poster-ahref"}, T_Naruto, H_Naruto, T_NARUTO),
                Img(<<"/", "naruto-100">>, T_Naruto), Txt("span", {"type"}, T_Abc)>>, <<>>),
      Element("article", {"flw-item"}, {1},
              <<ALink({}, T_Naruto, H_Naruto, <<>>)>>,
              << <<>>, <<Img(<<"/", "/", "[bad", "/", "naruto-100">>, <<>>)>> >>) }

\* The elements a page handed to one section scraper is made of.
SectionElems ==
    {Item(T_Naruto, h, T_Ep1) : h \in Hrefs}
    \cup {Item(t, H_Naruto, T_Ep1) : t \in Titles}
    \cup OddElements

\* The elements the pages of a whole run are made of: one title and link
\* under two spellings and two episode badges, another title and link, and a
\* link on which urljoin raises.
MainElems ==
    { Item(T_Naruto, H_Naruto, T_Ep1), Item(T_NARUTO, H_Naruto, T_Ep2),
      Item(T_Bleach, H_Bleach, T_Ep1),
      Item(T_Naruto, <<"/", "/", "[bad", "/", "watch", "/", "naruto-100">>, T_Ep1) }

\* The elements the records handed to the dedup loop on its own come from.
DedupElems ==
    { Item(T_Naruto, H_Naruto, T_Ep1), Item(T_NARUTO, H_Naruto, T_Ep2),
      Item(T_Naruto, H_Bleach, T_Ep1), Item(T_Bleach, H_Naruto, T_Ep1),
      Item(T_Bleach, H_Bleach, T_Ep2), Item(T_Naruto, H_Home, T_Ep1),
      Item(T_Naruto, H_Home, T_Ep2) }

(***************************************************************************)
(* extract_anime_info, step by step.  Each step maps the dict built so far *)
(* to [info, raised]: raised is the exception the try block catches, after *)
(* which the function returns the dict as it then stands.                  *)
(***************************************************************************)
Ok(info) == [info |-> info, raised |-> FALSE]

Raised(info) == [info |-> info, raised |-> TRUE]

\* TitleAccepted that compares the title as it is spelled.
TitleAcceptedAsSpelled(title) ==
    Len(title) > MinTitleLen /\ title \notin Stoplist

TitleAccepted(title) ==
    Len(title) > MinTitleLen /\ str_lower(title) \notin Stoplist

\* Lines 66-70, given the title element found.
TitleFrom(title, info) ==
    IF TitleAccepted(title) THEN Ok(SetKey(info, "title", title)) ELSE Ok(info)

SetTitle(title_element, info) ==
    IF title_element = <<>> THEN Ok(info)
    ELSE TitleFrom(get_text(title_element[1]), info)

\* Lines 59-70.
ExtractTitle(e, info) ==
    SetTitle(OrElse(Find(e.nodes, LAMBDA n : "dynamic-name" \in n.cls),
             OrElse(Find(e.nodes, LAMBDA n : "film-name" \in n.cls),
                    Find(e.nodes, LAMBDA n : n.tag \in {"h3", "h2", "a"}))),
             info)

\* Lines 88-89.
SetJname(link, info) ==
    IF link.jname # <<>> THEN Ok(SetKey(info, "japanese_name", link.jname))
    ELSE Ok(info)

\* SetLink that puts the href behind the base origin instead of resolving it.
SetLinkConcat(link, href, info) ==
    IF ~Contains(href, WatchMarker) THEN Ok(info)
    ELSE SetJname(link, SetKey(SetKey(info, "url", base_url \o href),
                               "id", Last(SplitOn(href, "/"))))

\* Lines 83-89, given the link element's href.
SetLink(link, href, info) ==
    IF ~Contains(href, WatchMarker) THEN Ok(info)
    ELSE IF urljoin_raises(base_url, href) THEN Raised(info)
    ELSE SetJname(link, SetKey(SetKey(info, "url", urljoin(base_url, href)),
                               "id", Last(SplitOn(href, "/"))))

\* Lines 81-82.
LinkFrom(link_element, info) ==
    IF link_element = <<>> \/ link_element[1].href = <<>> THEN Ok(info)
    ELSE SetLink(link_element[1], link_element[1].href, info)

\* Lines 73-89.
ExtractLink(e, info) ==
    LinkFrom(
        OrElse(Find(e.nodes, LAMBDA n : n.tag = "a" /\ "dynamic-name" \in n.cls),
        OrElse(Find(e.nodes, LAMBDA n : n.tag = "a" /\ Contains(n.href, WatchMarker)),
        OrElse(Find(e.nodes, LAMBDA n : n.tag = "a" /\ "film-poster-ahref" \in n.cls),
               Find(e.nodes, LAMBDA n : n.tag = "a")))),
        info)

IsImg(n) == n.tag = "img"

\* Lines 98-100.
SetImage(img_element, info) ==
    IF img_element = <<>> THEN Ok(info)
    ELSE IF urljoin_raises(base_url, img_element[1].src) THEN Raised(info)
    ELSE Ok(SetKey(SetKey(info, "image_url", urljoin(base_url, img_element[1].src)),
                   "alt_text", img_element[1].alt))

\* Lines 92-100: the element's own img, else its parent's, else its
\* grandparent's.
ExtractImage(e, info) ==
    SetImage(OrElse(Find(e.nodes, IsImg),
             OrElse(IF Len(e.ancestors) >= 1 THEN Find(e.ancestors[1], IsImg) ELSE <<>>,
                    IF Len(e.ancestors) >= 2 THEN Find(e.ancestors[2], IsImg) ELSE <<>>)),
             info)

\* re.match(r'\d{4}', text)
StartsWithYear(text) == Len(text) >= 4 /\ \A i \in 1..4 : text[i] \in Digits

\* Lines 108-115, for one element of info_elements and its text.
Classify(elem, text, info) ==
    IF (\E c \in elem.cls : "ep" \in ClassWords(c)) \/ Contains(text, <<"E", "p">>)
    THEN SetKey(info, "episodes", text)
    ELSE IF \E c \in elem.cls : "status" \in ClassWords(c)
    THEN SetKey(info, "status", text)
    ELSE IF StartsWithYear(text) THEN SetKey(info, "year", text)
    ELSE IF \E c \in elem.cls : "type" \in ClassWords(c)
    THEN SetKey(info, "type", text)
    ELSE info

RECURSIVE ClassifyAll(_, _)
ClassifyAll(elems, info) ==
    IF elems = <<>> THEN info
    ELSE ClassifyAll(Tail(elems), Classify(elems[1], get_text(elems[1]), info))

\* Lines 103-115.
ExtractMeta(e, info) ==
    Ok(ClassifyAll(
        SelectSeq(e.nodes, LAMBDA n :
            /\ n.tag \in {"span", "div", "p"}
            /\ ClassMatches(n, {"episode", "status", "year", "genre", "rating",
                                "ep", "type"})),
        info))

SetText(found, key, info) ==
    IF found = <<>> THEN Ok(info) ELSE Ok(SetKey(info, key, get_text(found[1])))

\* Lines 118-120.
ExtractRating(e, info) ==
    SetText(Find(e.nodes, LAMBDA n : ClassMatches(n, {"rating", "score", "star"})),
            "rating", info)

\* [g.strip() for g in genre_text.split(',')]
StripEach(parts) == [i \in 1..Len(parts) |-> strip(parts[i])]

\* Lines 127-132, for one genre text.
GenresOf(genre_text) ==
    IF genre_text # <<>> /\ IndexOf(genre_text, ",") # 0
    THEN StripEach(SplitOn(genre_text, ","))
    ELSE <<genre_text>>

RECURSIVE GenreTexts(_)
GenreTexts(elems) ==
    IF elems = <<>> THEN <<>>
    ELSE GenresOf(get_text(elems[1])) \o GenreTexts(Tail(elems))

SetGenres(genre_elements, info) ==
    IF genre_elements = <<>> THEN Ok(info)
    ELSE Ok(SetKey(info, "genres",
                   SelectSeq(GenreTexts(genre_elements), LAMBDA g : g # <<>>)))

\* Lines 123-133.
ExtractGenres(e, info) ==
    SetGenres(SelectSeq(e.nodes, LAMBDA n : ClassMatches(n, {"genre", "tag"})), info)

\* Lines 136-138.
ExtractDescription(e, info) ==
    SetText(Find(e.nodes, LAMBDA n :
                /\ n.tag \in {"p", "div"}
                /\ ClassMatches(n, {"desc", "summary", "synopsis"})),
            "description", info)

\* The steps of the try block follow one another until one raises.
Then7(e, s) == IF s.raised THEN s ELSE ExtractDescription(e, s.info)

Then6(e, s) == Then7(e, IF s.raised THEN s ELSE ExtractGenres(e, s.info))

Then5(e, s) == Then6(e, IF s.raised THEN s ELSE ExtractRating(e, s.info))

Then4(e, s) == Then5(e, IF s.raised THEN s ELSE ExtractMeta(e, s.info))

Then3(e, s) == Then4(e, IF s.raised THEN s ELSE ExtractImage(e, s.info))

Then2(e, s) == Then3(e, IF s.raised THEN s ELSE ExtractLink(e, s.info))

\* Lines 50-143: an exception ends the function with the dict built so far.
extract_anime_info(e) == Then2(e, ExtractTitle(e, EmptyDict)).info

\* extract_anime_info of every element of the markup above, computed once.
ExtractTable ==
    [e \in SectionElems \cup MainElems \cup DedupElems |-> extract_anime_info(e)]

(***************************************************************************)
(* Section scrapers.  A call names the scraper and its argument:           *)
(* [name, genre, page].  soup is what get_page returned: [ok, page].       *)
(***************************************************************************)
Call(name, genre, page) == [name |-> name, genre |-> genre, page |-> page]

\* str.replace(old, new) for a one-character old.
RECURSIVE str_replace(_, _, _)
str_replace(s, old, new) ==
    IF s = <<>> THEN <<>>
    ELSE (IF s[1] = old THEN new ELSE <<s[1]>>) \o str_replace(Tail(s), old, new)

\* Line 255: genre.lower().replace(' ', '-').replace('&', 'and')
GenreSlug(genre) ==
    str_replace(str_replace(str_lower(genre), " ", <<"-">>), "&", <<"a", "n", "d">>)

\* The URL each scraper hands to get_page (a genre slug character by character,
\* a page number as the token after "page=").
SectionUrl(call) ==
    CASE call.name = "homepage"         -> base_url
      [] call.name = "updated"          -> base_url \o <<"/", "updated">>
      [] call.name = "added"            -> base_url \o <<"/", "added">>
      [] call.name = "ongoing"          -> base_url \o <<"/", "ongoing">>
      [] call.name = "upcoming"         -> base_url \o <<"/", "upcoming">>
      [] call.name = "recently_updated" -> base_url \o <<"/", "recently-updated">>
      [] call.name = "genre"            ->
            base_url \o <<"/", "genre", "/">> \o GenreSlug(call.genre)
      [] call.name = "recently_added"   ->
            IF call.page = 1 THEN base_url \o <<"/", "recently-added">>
            ELSE base_url \o <<"/", "recently-added", "?", "page=", ToString(call.page)>>

\* The category each scraper stamps (f'genre_{genre.lower()}' for a genre).
Category(call) ==
    IF call.name = "genre" THEN <<"genre_">> \o str_lower(call.genre)
    ELSE <<call.name>>

ItemWords == {"anime", "item", "card", "show"}

ItemOrMovieWords == ItemWords \cup {"movie"}

HomeSectionWords == {"anime", "show", "movie", "trending", "popular", "latest"}

NavWords == {"home", "updated", "added", "ongoing", "upcoming"}

\* soup.find_all(['div', 'article', 'li'], class_=re.compile(...))
IsItem(el, words) ==
    el.tag \in {"div", "article", "li"} /\ ClassMatches(el, words)

\* The candidate elements of a page, in the order the scraper visits them.
Candidates(call, page) ==
    CASE call.name = "homepage" ->
            \* lines 155-159: for each matching section, its matching elements
            SelectSeq(page, LAMBDA el : 1 \in el.secs /\ IsItem(el, ItemWords))
            \o SelectSeq(page, LAMBDA el : 2 \in el.secs /\ IsItem(el, ItemWords))
      [] call.name \in {"updated", "added", "ongoing"} ->
            SelectSeq(page, LAMBDA el : IsItem(el, ItemWords))
      [] call.name \in {"upcoming", "genre", "recently_updated"} ->
            SelectSeq(page, LAMBDA el : IsItem(el, ItemOrMovieWords))
      [] call.name = "recently_added" ->
            SelectSeq(page, LAMBDA el : el.tag = "div" /\ "film-detail" \in el.cls)

\* element.find('a', href=re.compile(r'/(home|updated|added|ongoing|upcoming)$'))
IsNavLink(n) ==
    /\ n.tag = "a"
    /\ Len(n.href) >= 2
    /\ n.href[Len(n.href) - 1] = "/"
    /\ Last(n.href) \in NavWords

HasNavLink(el) == \E i \in 1..Len(el.nodes) : IsNavLink(el.nodes[i])

\* Whether the scraper skips navigation elements (lines 239, 285).
SkipsNav(call) == call.name \in {"upcoming", "recently_updated"}

\* Whether the scraper repeats the length test (lines 243, 265, 289, 314).
ChecksLength(call) ==
    call.name \in {"upcoming", "genre", "recently_updated", "recently_added"}

\* Accepts that only tests that the extraction returned something.
AcceptsAny(call, anime_info) == DOMAIN anime_info # {}

\* if anime_info and anime_info.get('title') [and len(title) > 3]
Accepts(call, anime_info) ==
    /\ DOMAIN anime_info # {}
    /\ Get(anime_info, "title", <<>>) # <<>>
    /\ (ChecksLength(call) => Len(Get(anime_info, "title", <<>>)) > MinTitleLen)

\* anime_info['category'] = ... (and 'genre', 'page')
StampMore(call, c) ==
    IF call.name = "genre" THEN SetKey(c, "genre", call.genre)
    ELSE IF call.name = "recently_added" THEN SetKey(c, "page", call.page)
    ELSE c

Stamp(call, anime_info) ==
    StampMore(call, SetKey(anime_info, "category", Category(call)))

\* The body of the loop for one candidate element: no record or one.
Accepted(call, anime_info) ==
    IF Accepts(call, anime_info) THEN <<Stamp(call, anime_info)>> ELSE <<>>

ScrapeElement(call, el) ==
    IF SkipsNav(call) /\ HasNavLink(el) THEN <<>>
    ELSE Accepted(call, ExtractTable[el])

\* The records of the elements that gave one, in order.
Records(rs) ==
    [j \in 1..Len(SelectSeq(rs, LAMBDA r : r # <<>>)) |->
        SelectSeq(rs, LAMBDA r : r # <<>>)[j][1]]

\* The loop over the candidate elements.
ScrapeElements(call, elements) ==
    Records([i \in 1..Len(elements) |-> ScrapeElement(call, elements[i])])

\* What a section scraper returns for the soup get_page gave it.
scrape_section(call, soup) ==
    IF ~soup.ok THEN <<>>
    ELSE ScrapeElements(call, Candidates(call, soup.page))

\* Keeps with the url test left out.
KeepsTitleOnly(title, url, titles, urls) ==
    /\ title \notin titles
    /\ title # <<>>
    /\ url # <<>>
    /\ Len(title) > MinTitleLen

(***************************************************************************)
(* The dedup loop of scrape_all (lines 419-431).                           *)
(***************************************************************************)
\* Line 428: the condition under which the record is appended.
Keeps(title, url, titles, urls) ==
    /\ title \notin titles
    /\ url \notin urls
    /\ title # <<>>
    /\ url # <<>>
    /\ Len(title) > MinTitleLen

\* Lines 425-428.
DedupKeeps(anime, titles, urls) ==
    Keeps(str_lower(Get(anime, "title", <<>>)), Get(anime, "url", <<>>), titles, urls)

\* DedupStep that forgets what it has seen.
DedupStepForgets(st, anime) ==
    IF DedupKeeps(anime, st.titles, st.urls)
    THEN [unique |-> Append(st.unique, anime), titles |-> st.titles, urls |-> st.urls]
    ELSE st

\* DedupStep that lets a later record with a seen title and url take the place
\* of the kept one.
DedupStepLastWins(st, anime) ==
    IF DedupKeeps(anime, st.titles, st.urls)
    THEN [unique |-> Append(st.unique, anime),
          titles |-> st.titles \cup {str_lower(Get(anime, "title", <<>>))},
          urls   |-> st.urls \cup {Get(anime, "url", <<>>)}]
    ELSE [unique |-> [i \in 1..Len(st.unique) |->
                         IF /\ str_lower(Get(st.unique[i], "title", <<>>))
                                 = str_lower(Get(anime, "title", <<>>))
                            /\ Get(st.unique[i], "url", <<>>) = Get(anime, "url", <<>>)
                         THEN anime ELSE st.unique[i]],
          titles |-> st.titles, urls |-> st.urls]

\* DedupStep that puts a kept record in front of the list.
DedupStepPrepends(st, anime) ==
    IF DedupKeeps(anime, st.titles, st.urls)
    THEN [unique |-> <<anime>> \o st.unique,
          titles |-> st.titles \cup {str_lower(Get(anime, "title", <<>>))},
          urls   |-> st.urls \cup {Get(anime, "url", <<>>)}]
    ELSE st

\* Lines 429-431: one iteration of the loop on the loop state
\* [unique, titles, urls].
DedupStep(st, anime) ==
    IF DedupKeeps(anime, st.titles, st.urls)
    THEN [unique |-> Append(st.unique, anime),
          titles |-> st.titles \cup {str_lower(Get(anime, "title", <<>>))},
          urls   |-> st.urls \cup {Get(anime, "url", <<>>)}]
    ELSE st

\* PageKeeps with the test that the url is not empty left out.
PageKeepsNoUrlTest(title, url, titles, urls) ==
    /\ title \notin titles
    /\ url \notin urls
    /\ title # <<>>

\* Line 345: the test of scrape_recently_added_multiple_pages, which has no
\* length test.
PageKeeps(title, url, titles, urls) ==
    /\ title \notin titles
    /\ url \notin urls
    /\ title # <<>>
    /\ url # <<>>

\* Lines 342-345.
PageDedupKeeps(anime, titles, urls) ==
    PageKeeps(str_lower(Get(anime, "title", <<>>)), Get(anime, "url", <<>>), titles, urls)

\* Lines 346-348: one iteration of the loop of lines 341-348.
PageDedupStep(st, anime) ==
    IF PageDedupKeeps(anime, st.titles, st.urls)
    THEN [unique |-> Append(st.unique, anime),
          titles |-> st.titles \cup {str_lower(Get(anime, "title", <<>>))},
          urls   |-> st.urls \cup {Get(anime, "url", <<>>)}]
    ELSE st

(***************************************************************************)
(* Program constants.                                                      *)
(***************************************************************************)
\* get_page's default retries.
Retries == 3

\* time.sleep(2) between attempts.
RetryDelay == 2

\* genre_anime[:10]
GenreLimit == 10

G_Action == <<"A", "c", "t", "i", "o", "n">>

G_Comedy == <<"C", "o", "m", "e", "d", "y">>

G_Drama == <<"D", "r", "a", "m", "a">>

G_Romance == <<"R", "o", "m", "a", "n", "c", "e">>

G_Fantasy == <<"F", "a", "n", "t", "a", "s", "y">>

popular_genres == <<G_Action, G_Comedy, G_Drama, G_Romance, G_Fantasy>>

\* Lines 403-413: the scrapers scrape_all calls, in order.
ScrapeAllCalls ==
    << Call("homepage", <<>>, 0), Call("recently_updated", <<>>, 0),
       Call("recently_added", <<>>, 1), Call("ongoing", <<>>, 0),
       Call("upcoming", <<>>, 0) >>
    \o [i \in 1..Len(popular_genres) |-> Call("genre", popular_genres[i], 0)]

(***************************************************************************)
(* Bounds.                                                                 *)
(***************************************************************************)
\* The elements all the pages of one run of main hold together.
MaxRunElems == 2

\* The elements of the page handed to a section scraper called on its own.
MaxPageLen == 2

\* The length of a list handed to the dedup loop on its own.
MaxDedupLen == 3

\* The largest max_pages scrape_recently_added_multiple_pages is called with.
MaxPages == 2

\* Sequences over S of length at most n.
SeqsUpTo(S, n) == UNION {[1..k -> S] : k \in 0..n}

(***************************************************************************)
(* State.                                                                  *)
(***************************************************************************)
VARIABLES
    driver,         \* what runs: "main", one "section" scraper, the "dedup" loop,
                    \* "multi" for scrape_recently_added_multiple_pages
    max_pages,      \* the argument of scrape_recently_added_multiple_pages
    pc,             \* the position in the code
    sec,            \* scrape_all: the index in ScrapeAllCalls of the current scraper
    call,           \* the section scraper running
    attempt,        \* get_page: the loop variable
    soup,           \* what get_page returned: [ok, page]
    n_attempts,     \* session.get calls made by the current get_page call
    slept,          \* seconds the current get_page call slept
    n_warnings,     \* "Attempt n failed" lines of the current get_page call
    n_errors,       \* "Failed to fetch" lines of the current get_page call
    result,         \* what the last section scraper returned
    used,           \* the elements the pages fetched so far held (bounded)
    invoked,        \* the scrapers scrape_all has called, in order
    all_anime,      \* scrape_all: the concatenation; the dedup loop's input
    idx,            \* the dedup loop: the index of the next record
    unique_anime,   \* the dedup loop: the records kept
    seen_titles,    \* the dedup loop
    seen_urls,      \* the dedup loop
    scraped_anime,  \* self.scraped_anime
    pass,           \* the dedup loop run on its own: first or second application
    first_out,      \* the dedup loop run on its own: the first application's output
    files,          \* the files written: a subset of {"json", "csv"}
    printed,        \* what main printed: "", "summary" or "nothing"
    raised,         \* the exception that reached main: "", "OSError" (a file
                    \* write), "Exception" (a scraper), "KeyboardInterrupt"
    handler,        \* the handler of main that ran: "", "KeyboardInterrupt" (line
                    \* 509), "Exception" (line 511)
    main_outcome    \* "running", "returned" (normally) or "raised" (propagated)

vars ==
    <<driver, max_pages, pc, sec, call, attempt, soup, n_attempts, slept, n_warnings, n_errors,
      result, used, invoked, all_anime, idx, unique_anime, seen_titles, seen_urls,
      scraped_anime, pass, first_out, files, printed, raised, handler, main_outcome>>

fetchVars == <<attempt, soup, n_attempts, slept, n_warnings, n_errors>>

dedupVars == <<idx, unique_anime, seen_titles, seen_urls>>

mainVars == <<files, printed, raised, handler, main_outcome>>

NoSoup == [ok |-> FALSE, page |-> <<>>]

NoCall == Call("", <<>>, 0)

\* The state right after NineAnimeScraper() (lines 22-33), nothing running.
ConstructedButCall ==
    /\ attempt = 0
    /\ soup = NoSoup
    /\ n_attempts = 0
    /\ slept = 0
    /\ n_warnings = 0
    /\ n_errors = 0
    /\ result = <<>>
    /\ used = 0
    /\ invoked = <<>>
    /\ all_anime = <<>>
    /\ idx = 0
    /\ unique_anime = <<>>
    /\ seen_titles = {}
    /\ seen_urls = {}
    /\ scraped_anime = <<>>
    /\ pass = 0
    /\ first_out = <<>>
    /\ files = {}
    /\ printed = ""
    /\ raised = ""
    /\ handler = ""
    /\ main_outcome = "running"

Constructed == call = NoCall /\ ConstructedButCall

\* The locals of scrape_all, of the scraper it called and of get_page go when
\* scrape_all returns or an exception unwinds it.
LocalsGone ==
    /\ sec' = 0
    /\ call' = NoCall
    /\ attempt' = 0
    /\ soup' = NoSoup
    /\ n_attempts' = 0
    /\ slept' = 0
    /\ n_warnings' = 0
    /\ n_errors' = 0
    /\ result' = <<>>
    /\ used' = 0
    /\ all_anime' = <<>>
    /\ idx' = 0
    /\ unique_anime' = <<>>
    /\ seen_titles' = {}
    /\ seen_urls' = {}

(***************************************************************************)
(* get_page (lines 35-48): one action per attempt.                         *)
(***************************************************************************)
\* The pages a successful fetch may return.  In a run of main the elements of
\* all pages together are bounded, and a page may be longer than the
\* genre limit: its first element GenreLimit times, then the others.
PagesFor(c) ==
    IF driver = "section" THEN SeqsUpTo(SectionElems, MaxPageLen)
    ELSE LET short == SeqsUpTo(MainElems, MaxRunElems - used)
         IN  short
             \cup {[i \in 1..GenreLimit |-> p[1]] \o Tail(p) :
                     p \in {q \in short : Len(q) = 2}}

\* How many elements of the bound a page takes.
PageCost(page) ==
    IF Len(page) > GenreLimit THEN Len(page) - GenreLimit + 1 ELSE Len(page)

\* Lines 39-41: the attempt succeeds and get_page returns the document.
AttemptOk ==
    /\ pc = "fetch"
    /\ \E page \in PagesFor(call) :
          /\ soup' = [ok |-> TRUE, page |-> page]
          /\ used' = IF driver \in {"main", "multi"} THEN used + PageCost(page) ELSE used
    /\ n_attempts' = n_attempts + 1
    /\ pc' = "parse"
    /\ UNCHANGED <<driver, max_pages, sec, call, attempt, slept, n_warnings, n_errors, result,
                   invoked, all_anime, dedupVars, scraped_anime, pass, first_out,
                   mainVars>>

\* AttemptFail that waits after the last attempt too.
AttemptFailAlwaysWaits ==
    /\ pc = "fetch"
    /\ n_attempts' = n_attempts + 1
    /\ n_warnings' = n_warnings + 1
    /\ slept' = slept + RetryDelay
    /\ IF attempt < Retries - 1
       THEN /\ attempt' = attempt + 1
            /\ UNCHANGED <<pc, soup, n_errors>>
       ELSE /\ n_errors' = n_errors + 1
            /\ soup' = NoSoup
            /\ pc' = "parse"
            /\ UNCHANGED attempt
    /\ UNCHANGED <<driver, max_pages, sec, call, result, used, invoked, all_anime, dedupVars,
                   scraped_anime, pass, first_out, mainVars>>

\* Lines 42-48: the attempt raises requests.RequestException.
AttemptFail ==
    /\ pc = "fetch"
    /\ n_attempts' = n_attempts + 1
    /\ n_warnings' = n_warnings + 1
    /\ IF attempt < Retries - 1
       THEN /\ slept' = slept + RetryDelay
            /\ attempt' = attempt + 1
            /\ UNCHANGED <<pc, soup, n_errors>>
       ELSE /\ n_errors' = n_errors + 1
            /\ soup' = NoSoup
            /\ pc' = "parse"
            /\ UNCHANGED <<slept, attempt>>
    /\ UNCHANGED <<driver, max_pages, sec, call, result, used, invoked, all_anime, dedupVars,
                   scraped_anime, pass, first_out, mainVars>>

(***************************************************************************)
(* The section scrapers and the loop of scrape_all that calls them.        *)
(***************************************************************************)
IsGenreCall == call.name = "genre"

\* Lines 403-413: scrape_all calls the next scraper, which calls get_page.
Invoke ==
    /\ driver = "main"
    /\ pc = "next"
    /\ sec <= Len(ScrapeAllCalls)
    /\ call' = ScrapeAllCalls[sec]
    /\ invoked' = Append(invoked, ScrapeAllCalls[sec])
    /\ attempt' = 0
    /\ n_attempts' = 0
    /\ slept' = 0
    /\ n_warnings' = 0
    /\ n_errors' = 0
    /\ soup' = NoSoup
    /\ pc' = "fetch"
    /\ UNCHANGED <<driver, max_pages, sec, result, used, all_anime, dedupVars, scraped_anime,
                   pass, first_out, mainVars>>

\* SectionReturn without the limit on what a genre contributes.
SectionReturnNoLimit ==
    /\ pc = "parse"
    /\ result' = scrape_section(call, soup)
    /\ IF driver = "main"
       THEN /\ all_anime' = all_anime \o result'
            /\ sec' = sec + 1
            /\ pc' = "next"
       ELSE /\ pc' = "returned"
            /\ UNCHANGED <<all_anime, sec>>
    /\ UNCHANGED <<driver, max_pages, call, fetchVars, used, invoked, dedupVars, scraped_anime,
                   pass, first_out, mainVars>>

\* The scraper returns its records; scrape_all extends all_anime with them
\* (the first GenreLimit of them for a genre) and goes on.
SectionReturn ==
    /\ pc = "parse"
    /\ result' = scrape_section(call, soup)
    /\ IF driver = "main"
       THEN /\ all_anime' = all_anime \o
                   (IF IsGenreCall
                    THEN Slice(result', 1, IF Len(result') < GenreLimit
                                           THEN Len(result') ELSE GenreLimit)
                    ELSE result')
            /\ sec' = sec + 1
            /\ pc' = "next"
       ELSE /\ pc' = "returned"
            /\ UNCHANGED <<all_anime, sec>>
    /\ UNCHANGED <<driver, max_pages, call, fetchVars, used, invoked, dedupVars, scraped_anime,
                   pass, first_out, mainVars>>

\* The scraper raises while it handles the document (an Exception that is no
\* RequestException).  In the genre loop lines 416-417 catch it: the genre
\* contributes nothing and the loop goes on.
GenreRaise ==
    /\ driver = "main"
    /\ pc = "parse"
    /\ soup.ok
    /\ IsGenreCall
    /\ result' = <<>>
    /\ sec' = sec + 1
    /\ pc' = "next"
    /\ UNCHANGED <<driver, max_pages, call, fetchVars, used, invoked, all_anime, dedupVars,
                   scraped_anime, pass, first_out, mainVars>>

\* Outside the genre loop nothing in scrape_all catches it: it reaches the
\* caller, and in a run of main the handler of lines 511-512.
SectionRaise ==
    /\ pc = "parse"
    /\ soup.ok
    /\ ~(driver = "main" /\ IsGenreCall)
    /\ IF driver = "main"
       THEN /\ raised' = "Exception"
            /\ handler' = "Exception"
            /\ main_outcome' = "returned"
            /\ pc' = "done"
            /\ LocalsGone
       ELSE /\ pc' = "raised"
            /\ result' = <<>>
            /\ UNCHANGED <<raised, handler, main_outcome, sec, call, fetchVars, used, all_anime,
                           dedupVars>>
    /\ UNCHANGED <<driver, max_pages, invoked, scraped_anime, pass, first_out, files, printed>>

(***************************************************************************)
(* The dedup loop (lines 419-436).                                         *)
(***************************************************************************)
\* Lines 420-422.
DedupBegin ==
    /\ driver = "main"
    /\ pc = "next"
    /\ sec > Len(ScrapeAllCalls)
    /\ unique_anime' = <<>>
    /\ seen_titles' = {}
    /\ seen_urls' = {}
    /\ idx' = 1
    /\ pc' = "dedup"
    /\ UNCHANGED <<driver, max_pages, sec, call, fetchVars, result, used, invoked, all_anime,
                   scraped_anime, pass, first_out, mainVars>>

\* Lines 424-431: one iteration.
DedupIter ==
    /\ pc = "dedup"
    /\ idx <= Len(all_anime)
    /\ LET st == DedupStep([unique |-> unique_anime, titles |-> seen_titles,
                            urls |-> seen_urls], all_anime[idx])
       IN  /\ unique_anime' = st.unique
           /\ seen_titles' = st.titles
           /\ seen_urls' = st.urls
    /\ idx' = idx + 1
    /\ UNCHANGED <<driver, max_pages, pc, sec, call, fetchVars, result, used, invoked, all_anime,
                   scraped_anime, pass, first_out, mainVars>>

\* Lines 433-436: scrape_all stores and returns the list.  Run on its own, the
\* loop is then applied to its own output once more.
DedupEnd ==
    /\ pc = "dedup"
    /\ idx > Len(all_anime)
    /\ IF driver = "main"
       THEN /\ scraped_anime' = unique_anime
            /\ pc' = "scraped"
            /\ UNCHANGED <<all_anime, dedupVars, pass, first_out, sec, call, fetchVars,
                           result, used>>
       ELSE IF pass = 1
       THEN /\ first_out' = unique_anime
            /\ all_anime' = unique_anime
            /\ unique_anime' = <<>>
            /\ seen_titles' = {}
            /\ seen_urls' = {}
            /\ idx' = 1
            /\ pass' = 2
            /\ UNCHANGED <<pc, scraped_anime, sec, call, fetchVars, result, used>>
       ELSE /\ pc' = "returned"
            /\ UNCHANGED <<all_anime, dedupVars, pass, first_out, scraped_anime, sec,
                           call, fetchVars, result, used>>
    /\ UNCHANGED <<driver, max_pages, invoked, mainVars>>

(***************************************************************************)
(* scrape_recently_added_multiple_pages (lines 322-351).  sec is the page  *)
(* the loop of line 327 is at.                                             *)
(***************************************************************************)
\* Lines 327-329 and 298-305: the next page is asked for.
PageInvoke ==
    /\ driver = "multi"
    /\ pc = "next"
    /\ sec <= max_pages
    /\ call' = Call("recently_added", <<>>, sec)
    /\ invoked' = Append(invoked, Call("recently_added", <<>>, sec))
    /\ attempt' = 0
    /\ n_attempts' = 0
    /\ slept' = 0
    /\ n_warnings' = 0
    /\ n_errors' = 0
    /\ soup' = NoSoup
    /\ pc' = "fetch"
    /\ UNCHANGED <<driver, max_pages, sec, result, used, all_anime, dedupVars,
                   scraped_anime, pass, first_out, mainVars>>

\* Lines 329-332: scrape_recently_added returns and its records are added.
PageReturn ==
    /\ driver = "multi"
    /\ pc = "parse"
    /\ result' = scrape_section(call, soup)
    /\ all_anime' = all_anime \o result'
    /\ sec' = sec + 1
    /\ pc' = "next"
    /\ UNCHANGED <<driver, max_pages, call, fetchVars, used, invoked, dedupVars,
                   scraped_anime, pass, first_out, mainVars>>

\* Lines 333-334: scrape_recently_added raises while it handles the
\* document; the page adds nothing and the loop goes on.
PageRaise ==
    /\ driver = "multi"
    /\ pc = "parse"
    /\ soup.ok
    /\ result' = <<>>
    /\ sec' = sec + 1
    /\ pc' = "next"
    /\ UNCHANGED <<driver, max_pages, call, fetchVars, used, invoked, all_anime,
                   dedupVars, scraped_anime, pass, first_out, mainVars>>

\* Lines 337-339.
PageDedupBegin ==
    /\ driver = "multi"
    /\ pc = "next"
    /\ sec > max_pages
    /\ unique_anime' = <<>>
    /\ seen_titles' = {}
    /\ seen_urls' = {}
    /\ idx' = 1
    /\ pc' = "dedup"
    /\ UNCHANGED <<driver, max_pages, sec, call, fetchVars, result, used, invoked,
                   all_anime, scraped_anime, pass, first_out, mainVars>>

\* Lines 341-348: one iteration.
PageDedupIter ==
    /\ driver = "multi"
    /\ pc = "dedup"
    /\ idx <= Len(all_anime)
    /\ LET st == PageDedupStep([unique |-> unique_anime, titles |-> seen_titles,
                                urls |-> seen_urls], all_anime[idx])
       IN  /\ unique_anime' = st.unique
           /\ seen_titles' = st.titles
           /\ seen_urls' = st.urls
    /\ idx' = idx + 1
    /\ UNCHANGED <<driver, max_pages, pc, sec, call, fetchVars, result, used, invoked,
                   all_anime, scraped_anime, pass, first_out, mainVars>>

\* Lines 350-351: unique_anime is returned (self.scraped_anime is not set).
PageDedupEnd ==
    /\ driver = "multi"
    /\ pc = "dedup"
    /\ idx > Len(all_anime)
    /\ pc' = "returned"
    /\ UNCHANGED <<driver, max_pages, sec, call, fetchVars, result, used, invoked,
                   all_anime, dedupVars, scraped_anime, pass, first_out, mainVars>>

(***************************************************************************)
(* main (lines 491-512).                                                   *)
(***************************************************************************)
\* Lines 499-507: if anime_data: ... else: print(...)
MainBranch ==
    /\ pc = "scraped"
    /\ IF scraped_anime # <<>>
       THEN /\ pc' = "save_json"
            /\ UNCHANGED <<printed, main_outcome>>
       ELSE /\ printed' = "nothing"
            /\ main_outcome' = "returned"
            /\ pc' = "done"
    /\ UNCHANGED <<driver, max_pages, sec, call, fetchVars, result, used, invoked, all_anime,
                   dedupVars, scraped_anime, pass, first_out, files, raised, handler>>

\* Lines 438-442 and 444-460: the file is written.
Save(at, file, then) ==
    /\ pc = at
    /\ files' = files \cup {file}
    /\ pc' = then
    /\ UNCHANGED <<driver, max_pages, sec, call, fetchVars, result, used, invoked, all_anime,
                   dedupVars, scraped_anime, pass, first_out, printed, raised, handler,
                   main_outcome>>

\* SaveFails with no handler for it in main.
SaveFailsUncaught(at) ==
    /\ pc = at
    /\ raised' = "OSError"
    /\ handler' = ""
    /\ main_outcome' = "raised"
    /\ pc' = "done"
    /\ LocalsGone
    /\ UNCHANGED <<driver, max_pages, invoked, scraped_anime, pass, first_out, files, printed>>

\* open() or the write raises OSError: save_to_json and save_to_csv handle
\* nothing, main's try block is left and the handler of lines 511-512 runs.
SaveFails(at) ==
    /\ pc = at
    /\ raised' = "OSError"
    /\ handler' = "Exception"
    /\ main_outcome' = "returned"
    /\ pc' = "done"
    /\ LocalsGone
    /\ UNCHANGED <<driver, max_pages, invoked, scraped_anime, pass, first_out, files, printed>>

SaveJson == Save("save_json", "json", "save_csv")

SaveJsonFails == SaveFails("save_json")

SaveCsv == Save("save_csv", "csv", "summary")

SaveCsvFails == SaveFails("save_csv")

\* Line 505 (lines 462-489), after which main returns.
PrintSummary ==
    /\ pc = "summary"
    /\ printed' = "summary"
    /\ main_outcome' = "returned"
    /\ pc' = "done"
    /\ UNCHANGED <<driver, max_pages, sec, call, fetchVars, result, used, invoked, all_anime,
                   dedupVars, scraped_anime, pass, first_out, files, raised, handler>>

\* The positions inside main's try block.
InTry == pc \in {"next", "fetch", "parse", "dedup", "scraped", "save_json", "save_csv",
                 "summary"}

\* Lines 509-510: the user interrupts; nothing below main catches
\* KeyboardInterrupt.
Interrupt ==
    /\ driver = "main"
    /\ InTry
    /\ raised' = "KeyboardInterrupt"
    /\ handler' = "KeyboardInterrupt"
    /\ main_outcome' = "returned"
    /\ pc' = "done"
    /\ LocalsGone
    /\ UNCHANGED <<driver, max_pages, invoked, scraped_anime, pass, first_out, files, printed>>

(***************************************************************************)
(* Specifications.                                                         *)
(***************************************************************************)
\* A run of main: the scraper is constructed and scrape_all starts.
Init ==
    /\ driver = "main"
    /\ max_pages = 0
    /\ pc = "next"
    /\ sec = 1
    /\ Constructed

\* Every step of a run in which no exception but the fetch failures and the
\* failures of the genre loop occurs.
NextRun ==
    \/ Invoke
    \/ AttemptOk
    \/ AttemptFail
    \/ SectionReturn
    \/ GenreRaise
    \/ DedupBegin
    \/ DedupIter
    \/ DedupEnd
    \/ MainBranch
    \/ SaveJson
    \/ SaveCsv
    \/ PrintSummary

Next ==
    \/ NextRun
    \/ SectionRaise
    \/ SaveJsonFails
    \/ SaveCsvFails
    \/ Interrupt

Spec == Init /\ [][Next]_vars

\* The program is sequential and every step of it returns: a run in which
\* nothing raises keeps stepping until main returns.  The order of the calls
\* and the number of records they add do not depend on what the elements
\* hold, so these runs take their pages from two of the elements.
FairElems == {Item(T_Naruto, H_Naruto, T_Ep1), Item(T_Bleach, H_Bleach, T_Ep1)}

FairPage == \A i \in 1..Len(soup.page) : soup.page[i] \in FairElems

NextFair ==
    \/ Invoke
    \/ AttemptOk /\ FairPage'
    \/ AttemptFail
    \/ SectionReturn
    \/ GenreRaise
    \/ DedupBegin
    \/ DedupIter
    \/ DedupEnd
    \/ MainBranch
    \/ SaveJson
    \/ SaveCsv
    \/ PrintSummary

FairSpec == Init /\ [][NextFair]_vars /\ WF_vars(NextFair)

\* One section scraper called on its own, with any page or a fetch that fails.
SectionCalls ==
    { Call("homepage", <<>>, 0), Call("updated", <<>>, 0), Call("added", <<>>, 0),
      Call("ongoing", <<>>, 0), Call("upcoming", <<>>, 0),
      Call("recently_updated", <<>>, 0), Call("recently_added", <<>>, 1),
      Call("genre", G_Action, 0) }

InitSection ==
    /\ driver = "section"
    /\ max_pages = 0
    /\ pc = "fetch"
    /\ sec = 0
    /\ call \in SectionCalls
    /\ ConstructedButCall

NextSection ==
    \/ AttemptOk
    \/ AttemptFail
    \/ SectionReturn
    \/ SectionRaise

SpecSection == InitSection /\ [][NextSection]_vars

\* The records the dedup loop is fed: what section scrapers return.
DedupRecords ==
    {ScrapeElements(Call("homepage", <<>>, 0), <<e>>)[1] : e \in DedupElems}
    \cup {ScrapeElements(Call("genre", G_Action, 0), <<Item(T_Naruto, H_Naruto, T_Ep1)>>)[1]}

\* The dedup loop on its own, applied to any list and then to its own output.
InitDedup ==
    /\ driver = "dedup"
    /\ max_pages = 0
    /\ pc = "dedup"
    /\ sec = 0
    /\ call = NoCall
    /\ attempt = 0
    /\ soup = NoSoup
    /\ n_attempts = 0
    /\ slept = 0
    /\ n_warnings = 0
    /\ n_errors = 0
    /\ result = <<>>
    /\ used = 0
    /\ invoked = <<>>
    /\ all_anime \in SeqsUpTo(DedupRecords, MaxDedupLen)
    /\ idx = 1
    /\ unique_anime = <<>>
    /\ seen_titles = {}
    /\ seen_urls = {}
    /\ scraped_anime = <<>>
    /\ pass = 1
    /\ first_out = <<>>
    /\ files = {}
    /\ printed = ""
    /\ raised = ""
    /\ handler = ""
    /\ main_outcome = "running"

NextDedup ==
    \/ DedupIter
    \/ DedupEnd

SpecDedup == InitDedup /\ [][NextDedup]_vars

\* scrape_recently_added_multiple_pages called on its own, with any max_pages
\* up to MaxPages, any pages and any fetch or scraper that fails.
InitMulti ==
    /\ driver = "multi"
    /\ max_pages \in 0..MaxPages
    /\ pc = "next"
    /\ sec = 1
    /\ Constructed

NextMulti ==
    \/ PageInvoke
    \/ AttemptOk
    \/ AttemptFail
    \/ PageReturn
    \/ PageRaise
    \/ PageDedupBegin
    \/ PageDedupIter
    \/ PageDedupEnd

SpecMulti == InitMulti /\ [][NextMulti]_vars

(***************************************************************************)
(* Properties of the dedup pass.                                           *)
(***************************************************************************)
TitleKey(r) == str_lower(Get(r, "title", <<>>))
UrlOf(r) == Get(r, "url", <<>>)
PairKey(r) == <<TitleKey(r), UrlOf(r)>>
ScrapeAllReturned == pc \in {"scraped", "save_json", "save_csv", "summary", "done"}
\* The dedup loop of the first pass has consumed its whole input.
LoopDone == pc = "dedup" /\ pass = 1 /\ idx > Len(all_anime)
IsValid(r) == TitleKey(r) # <<>> /\ UrlOf(r) # <<>> /\ Len(TitleKey(r)) > MinTitleLen
SamePairBefore(i) == \E j \in 1..(i - 1) : PairKey(all_anime[j]) = PairKey(all_anime[i])
SharesWithKept(r) ==
    \E k \in 1..Len(unique_anime) :
        TitleKey(unique_anime[k]) = TitleKey(r) \/ UrlOf(unique_anime[k]) = UrlOf(r)
KeptNow == unique_anime' = Append(unique_anime, all_anime[idx])
DroppedNow == unique_anime' = unique_anime
FirstWith(key) == CHOOSE i \in 1..Len(all_anime) :
    /\ PairKey(all_anime[i]) = key
    /\ \A j \in 1..(i - 1) : PairKey(all_anime[j]) # key
KeptWith(key) == {k \in 1..Len(unique_anime) : PairKey(unique_anime[k]) = key}
\* Several different records of the input carry the pair of its i-th record.
Contested(i) ==
    \E j \in 1..Len(all_anime) :
        j # i /\ PairKey(all_anime[j]) = PairKey(all_anime[i]) /\ all_anime[j] # all_anime[i]

\* C1: in the list scrape_all returns and stores in scraped_anime, no two
\* records have the same (lowercased title, url) pair.
C1_UniquePairs ==
    \A i \in 1..Len(scraped_anime) : \A j \in 1..Len(scraped_anime) :
        i # j => PairKey(scraped_anime[i]) # PairKey(scraped_anime[j])

\* C1 witness: scrape_all has returned two records out of a concatenation
\* that held more.
C1_Witness ==
    /\ driver = "main"
    /\ pc = "scraped"
    /\ Len(scraped_anime) = 2
    /\ Len(all_anime) > 2

\* C2 as the spec words it: a valid record is kept exactly when no earlier
\* record of the concatenation has the same (lowercased title, url) pair.
C2_Original ==
    [][(pc = "dedup" /\ pass = 1 /\ idx <= Len(all_anime) /\ IsValid(all_anime[idx]))
          => (KeptNow <=> ~SamePairBefore(idx))]_vars

\* C2: a valid record is kept exactly when no record kept before it has the
\* same lowercased title or the same url; a record with the pair of an
\* earlier record is therefore never kept, and a record that is not valid is
\* never kept either.
C2_KeptIffNeitherSeen ==
    [][(pc = "dedup" /\ pass = 1 /\ idx <= Len(all_anime))
          => /\ KeptNow \/ DroppedNow
             /\ KeptNow <=> (IsValid(all_anime[idx]) /\ ~SharesWithKept(all_anime[idx]))
             /\ (IsValid(all_anime[idx]) /\ SamePairBefore(idx)) => DroppedNow]_vars

\* C2 witness: the loop has dropped a valid record whose pair no earlier
\* record has, because its title alone was seen.
C2_Witness ==
    /\ LoopDone
    /\ \E i \in 1..Len(all_anime) :
          /\ IsValid(all_anime[i])
          /\ ~SamePairBefore(i)
          /\ \A k \in 1..Len(unique_anime) : unique_anime[k] # all_anime[i]

C4_Idempotent == (driver = "dedup" /\ pc = "returned") => unique_anime = first_out

\* C4 witness: the second application has returned, on an output of two
\* records whose titles differ in spelling from their seen keys.
C4_Witness ==
    /\ driver = "dedup"
    /\ pc = "returned"
    /\ Len(first_out) = 2
    /\ \E k \in 1..2 : Get(first_out[k], "title", <<>>) # TitleKey(first_out[k])

(***************************************************************************)
(* Properties of get_page and of the section scrapers.                     *)
(***************************************************************************)
Fetched == pc \in {"parse", "returned"}
SectionReturned == driver = "section" /\ pc = "returned"

\* C5: a get_page call whose attempts all fail makes exactly 3 attempts, waits
\* 2 seconds after each but the last, logs one final failure and returns
\* None, and the scraper that called it returns an empty list; an attempt
\* that succeeds returns the document with no further attempt, and no final
\* failure is logged.
C5_RetriesThenNothing ==
    /\ (Fetched /\ ~soup.ok)
          => /\ n_attempts = 3
             /\ n_warnings = 3
             /\ slept = 2 * (3 - 1)
             /\ n_errors = 1
             /\ soup.page = <<>>
    /\ (SectionReturned /\ ~soup.ok) => result = <<>>
    /\ (Fetched /\ soup.ok)
          => /\ n_attempts = n_warnings + 1
             /\ n_attempts <= 3
             /\ slept = 2 * n_warnings
             /\ n_errors = 0
    /\ (pc = "fetch") => (n_errors = 0 /\ n_attempts = n_warnings /\ n_attempts < 3)

\* C5 witness: a scraper has returned after its fetch failed three times.
C5_Witness ==
    /\ SectionReturned
    /\ ~soup.ok
    /\ n_attempts = 3
    /\ result = <<>>

HasScheme(u) == Len(u) >= 2 /\ u[2] = ":"
AfterScheme(u) == IF HasScheme(u) THEN Slice(u, 3, Len(u)) ELSE u
HasHost(u) == Len(AfterScheme(u)) >= 2 /\ AfterScheme(u)[1] = "/" /\ AfterScheme(u)[2] = "/"
HostEnd(r) ==
    IF \E i \in 3..Len(r) : r[i] \in {"/", "?", "#"}
    THEN CHOOSE i \in 3..Len(r) :
            r[i] \in {"/", "?", "#"} /\ \A j \in 3..(i - 1) : r[j] \notin {"/", "?", "#"}
    ELSE Len(r) + 1
SchemeOf(u) == IF HasScheme(u) THEN SchemeLower(u[1]) ELSE ""
HostOf(u) == IF HasHost(u) THEN Slice(AfterScheme(u), 3, HostEnd(AfterScheme(u)) - 1) ELSE <<>>
OnBaseOrigin(u) == SchemeOf(u) = "https" /\ HostOf(u) = <<"9animetv.to">>
\* The href names a scheme or a host of its own.
HasOwnOrigin(href) == HasScheme(href) \/ HasHost(href)
WatchAnchors(pg) ==
    {pg[i].nodes[j] : <<i, j>> \in
        {x \in (1..Len(pg)) \X (1..3) :
            /\ x[2] <= Len(pg[x[1]].nodes)
            /\ pg[x[1]].nodes[x[2]].tag = "a"
            /\ Contains(pg[x[1]].nodes[x[2]].href, WatchMarker)}}
WithUrl(res) == {res[i] : i \in {k \in 1..Len(res) : HasKey(res[k], "url")}}

\* C7 as the spec words it: every url a section scraper returns has the
\* scheme and host of https://9animetv.to.
C7_Original ==
    SectionReturned => \A r \in WithUrl(result) : OnBaseOrigin(Get(r, "url", <<>>))

\* C7: a url a section scraper returns has the scheme and host of
\* https://9animetv.to unless the href of a link of the page names a scheme or
\* a host of its own; the url then has that href's host, and its scheme
\* (https for an href that names a host only).
C7_BaseOriginUnlessOwn ==
    SectionReturned =>
        \A r \in WithUrl(result) :
            \/ OnBaseOrigin(Get(r, "url", <<>>))
            \/ \E a \in WatchAnchors(soup.page) :
                  /\ HasOwnOrigin(a.href)
                  /\ HostOf(Get(r, "url", <<>>)) = HostOf(a.href)
                  /\ SchemeOf(Get(r, "url", <<>>))
                        = (IF HasScheme(a.href) THEN SchemeOf(a.href) ELSE "https")

\* C7 witness: one page gave a url on the base origin from an href that is a
\* relative path, and a url on another host.
C7_Witness ==
    /\ SectionReturned
    /\ \E r \in WithUrl(result) : ~OnBaseOrigin(Get(r, "url", <<>>))
    /\ \E r \in WithUrl(result) : OnBaseOrigin(Get(r, "url", <<>>))
    /\ \E a \in WatchAnchors(soup.page) : a.href[1] = "anime"

\* C8 as the spec words it: every record a section scraper returns has a
\* title longer than 3 characters and a non-empty url.
C8_Original ==
    SectionReturned =>
        \A i \in 1..Len(result) :
            /\ Len(Get(result[i], "title", <<>>)) > 3
            /\ Get(result[i], "url", <<>>) # <<>>

\* C8: every record a section scraper returns has a non-empty title longer
\* than 3 characters (a candidate without a title key is left out), and its
\* category; it need not have a url.
C8_TitleOnly ==
    SectionReturned =>
        \A i \in 1..Len(result) :
            /\ HasKey(result[i], "title")
            /\ Len(Get(result[i], "title", <<>>)) > 3
            /\ Get(result[i], "category", <<>>) = Category(call)

\* C8 witness: a scraper has returned a record with a title and no url key,
\* from a page that also held a candidate without a title.
C8_Witness ==
    /\ SectionReturned
    /\ Len(soup.page) = 2
    /\ Len(result) = 1
    /\ ~HasKey(result[1], "url")

\* C9: no record a section scraper returns has a title that is a stoplist
\* word in any spelling of upper and lower case.
C9_NoStoplistTitle ==
    SectionReturned =>
        \A i \in 1..Len(result) :
            /\ str_lower(Get(result[i], "title", <<>>)) \notin Stoplist
            /\ str_lower(strip(Get(result[i], "title", <<>>))) \notin Stoplist

\* C9 witness: a scraper has returned from a page with a title element that
\* spells a stoplist word with capitals, and with another element it accepted.
C9_Witness ==
    /\ SectionReturned
    /\ Len(result) = 1
    /\ \E i \in 1..Len(soup.page) :
          /\ soup.page[i].nodes # <<>>
          /\ "dynamic-name" \in soup.page[i].nodes[1].cls
          /\ get_text(soup.page[i].nodes[1]) \notin Stoplist
          /\ str_lower(get_text(soup.page[i].nodes[1])) \in Stoplist
          /\ \E k \in 1..Len(Candidates(call, soup.page)) :
                Candidates(call, soup.page)[k] = soup.page[i]

(***************************************************************************)
(* Properties of a whole run.                                              *)
(***************************************************************************)
C6_Order ==
    << <<"homepage", <<>>, 0>>, <<"recently_updated", <<>>, 0>>,
       <<"recently_added", <<>>, 1>>, <<"ongoing", <<>>, 0>>, <<"upcoming", <<>>, 0>>,
       <<"genre", G_Action, 0>>, <<"genre", G_Comedy, 0>>, <<"genre", G_Drama, 0>>,
       <<"genre", G_Romance, 0>>, <<"genre", G_Fantasy, 0>> >>
InvokedSoFar == [i \in 1..Len(invoked) |-> <<invoked[i].name, invoked[i].genre, invoked[i].page>>]
FirstTen(res) == IF Len(res) <= 10 THEN res ELSE SubSeq(res, 1, 10)
\* scrape_all gets the outcome of the section it called and goes on.
SectionOver == driver = "main" /\ pc = "parse" /\ pc' = "next"

\* C6: whatever the fetches do, scrape_all calls the sections in the order
\* homepage, recently-updated, recently-added page 1, ongoing, upcoming, then
\* the genres Action, Comedy, Drama, Romance, Fantasy; a section whose fetch
\* fails adds nothing and the next section is up; a genre adds at most its
\* first 10 records and every other section all of its records; and
\* scrape_all returns in the end, having called all ten.
C6_AllSectionsInOrder ==
    /\ [](Len(invoked) <= 10 /\ InvokedSoFar = SubSeq(C6_Order, 1, Len(invoked)))
    /\ [][SectionOver
             => /\ sec' = sec + 1
                /\ Len(invoked) = sec
                /\ ~soup.ok => all_anime' = all_anime
                /\ call.name = "genre"
                      => /\ all_anime' = all_anime \o FirstTen(result')
                         /\ Len(all_anime') <= Len(all_anime) + 10
                /\ call.name # "genre" => all_anime' = all_anime \o result']_vars
    /\ <>(ScrapeAllReturned /\ InvokedSoFar = C6_Order)

\* C6 witness: all ten sections have been called, a genre has given more than
\* 10 records of which 10 were taken, and the fetch of the last genre failed.
C6_Witness ==
    /\ driver = "main"
    /\ pc = "next"
    /\ InvokedSoFar = C6_Order
    /\ sec = 11
    /\ ~soup.ok
    /\ Len(all_anime) = 10

WriteFailed == raised = "OSError"

\* C10 as the spec words it: a file-write failure leaves main as an uncaught
\* exception.
C10_Original == (pc = "done" /\ WriteFailed) => main_outcome = "raised"

\* C10: no error leaves main as an uncaught exception.  A file-write failure
\* is handled by main like any other Exception: what the try block had left
\* to do is skipped and main returns; so it does after a user interrupt, a
\* scraper's failure, failed fetches and extraction errors.
C10_NothingFatal ==
    /\ main_outcome \in {"running", "returned"}
    /\ pc = "done" <=> main_outcome = "returned"
    /\ WriteFailed
          => /\ handler = "Exception"
             /\ printed = ""
             /\ "csv" \notin files
             /\ main_outcome = "returned"
    /\ raised \in {"Exception", "OSError"} <=> handler = "Exception"
    /\ raised = "KeyboardInterrupt" <=> handler = "KeyboardInterrupt"

\* C10 witness: save_to_csv failed after save_to_json wrote its file, and
\* main has returned.
C10_Witness ==
    /\ pc = "done"
    /\ WriteFailed
    /\ files = {"json"}
    /\ main_outcome = "returned"

(***************************************************************************)
(* Properties of scrape_recently_added_multiple_pages.                     *)
(***************************************************************************)
\* The loop of scrape_all (its DedupStep) run over a list from its i-th record.
RECURSIVE AggregatorDedupFrom(_, _, _)
AggregatorDedupFrom(st, list, i) ==
    IF i > Len(list) THEN st.unique
    ELSE AggregatorDedupFrom(DedupStep(st, list[i]), list, i + 1)
AggregatorDedup(list) ==
    AggregatorDedupFrom([unique |-> <<>>, titles |-> {}, urls |-> {}], list, 1)
RecentlyAddedUrl(k) ==
    IF k = 1 THEN <<"https", ":", "/", "/", "9animetv.to", "/", "recently-added">>
    ELSE <<"https", ":", "/", "/", "9animetv.to", "/", "recently-added", "?", "page=",
           ToString(k)>>
\* scrape_recently_added_multiple_pages gets the outcome of a page and goes on.
PageOver == driver = "multi" /\ pc = "parse" /\ pc' = "next"
MultiReturned == driver = "multi" /\ pc = "returned"

\* C11: scrape_recently_added_multiple_pages(N) asks for the pages 1, 2, ...
\* in this order, page 1 by the bare path and page k > 1 with ?page=k; every
\* page adds its records at the end of the list, a failing page adds nothing
\* and the next page is up; and when it returns it has asked for N pages and
\* its list is what the dedup loop of scrape_all makes of the pages' records
\* in page order.
C11_PagesThenAggregatorDedup ==
    /\ [](driver = "multi"
            => /\ Len(invoked) <= max_pages
               /\ \A k \in 1..Len(invoked) :
                     /\ invoked[k].name = "recently_added"
                     /\ invoked[k].page = k
                     /\ SectionUrl(invoked[k]) = RecentlyAddedUrl(k))
    /\ [][PageOver
             => /\ sec' = sec + 1
                /\ Len(invoked) = sec
                /\ ~soup.ok => all_anime' = all_anime
                /\ \E added \in {<<>>, scrape_section(call, soup)} :
                      all_anime' = all_anime \o added]_vars
    /\ [](MultiReturned
            => /\ Len(invoked) = max_pages
               /\ unique_anime = AggregatorDedup(all_anime))

\* C11 witness: called for two pages, it has returned one record out of the
\* two that page 1 gave, after the fetch of page 2 failed.
C11_Witness ==
    /\ MultiReturned
    /\ max_pages = 2
    /\ Len(invoked) = 2
    /\ ~soup.ok
    /\ Len(all_anime) = 2
    /\ Len(unique_anime) = 1

(***************************************************************************)
(* Properties of the id.                                                   *)
(***************************************************************************)
LastSlash(h) ==
    CHOOSE i \in 1..Len(h) : h[i] = "/" /\ \A j \in (i + 1)..Len(h) : h[j] # "/"
\* What follows the last "/" of h.
AfterLastSlash(h) ==
    IF \E i \in 1..Len(h) : h[i] = "/" THEN Slice(h, LastSlash(h) + 1, Len(h)) ELSE h
HasQueryOrFragment(h) == \E i \in 1..Len(h) : h[i] \in {"?", "#"}
\* u up to its query string or fragment.
BeforeQuery(u) ==
    IF HasQueryOrFragment(u)
    THEN Slice(u, 1, (CHOOSE i \in 1..Len(u) :
                        u[i] \in {"?", "#"} /\ \A j \in 1..(i - 1) : u[j] \notin {"?", "#"}) - 1)
    ELSE u
FinalPathSegment(u) == AfterLastSlash(BeforeQuery(u))

\* C12: in every record that has a url, id is the final path segment of
\* that url, whatever follows the "/watch/" path in the href (a trailing
\* slash, a query string, a fragment).
C12_IdIsFinalPathSegment ==
    SectionReturned =>
        \A r \in WithUrl(result) :
            Get(r, "id", <<>>) = FinalPathSegment(Get(r, "url", <<>>))

====
